---- MODULE Spec2Model ----
(***************************************************************************)
(* Model of IapEventsProcessor (src/iaptic-rn/classes/IapEventsProcessor). *)
(* One JavaScript event loop: every action is one run-to-completion turn,  *)
(* i.e. the code of a handler from its entry (or from the await it was     *)
(* suspended in) up to its next await, return or throw.                    *)
(***************************************************************************)
EXTENDS Integers, Sequences, FiniteSets, Bags, TLC

\* ------------------------------------------------------------------ bounds
\* what the environment does in one behaviour: constructions of a processor,
\* addListeners and removeListeners calls, raw events delivered by the
\* platform, direct processPurchase calls and lapses of 60 seconds
MaxInputs == 3

\* ------------------------------------------------------------- data model
Procs    == 1..(MaxInputs + 1)
Products == {"p1", "p2"}
NoTx     == "undefined"
NoCode   == "undefined"

\* the product definitions the application may hand to iaptic at start-up
Catalogs ==
  {[p1 |-> "consumable", p2 |-> "non consumable"],
   [p1 |-> "consumable", p2 |-> "paid subscription"]}

\* the platform's transaction identifier of a purchase of productId
TxOf(productId) ==
  CASE productId = "p1" -> "tx1"
    [] productId = "p2" -> "tx2"

TxIds == {TxOf(p) : p \in Products}

\* IAP.ProductPurchase | IAP.SubscriptionPurchase: transactionId is optional;
\* payload stands for the rest of the object (receipt, dates), 0 for a
\* purchase object handed in by a direct caller
Purchase(productId, transactionId, payload) ==
  [productId |-> productId, transactionId |-> transactionId, payload |-> payload]

NoPurchase == Purchase("", NoTx, 0)

PurchaseShapes == UNION {{<<p, TxOf(p)>>, <<p, NoTx>>} : p \in Products}

ErrorCodes == {"E_UNKNOWN", NoCode}
PurchaseError(code, payload) == [code |-> code, payload |-> payload]

InFlight == {"validate", "wait", "finishUnverified", "finishVerified"}
Terminal == {"returned", "raised"}

VARIABLES
  products,          \* iaptic.products: product id -> product type
  nProcs,            \* number of processors constructed so far; ids are 1..nProcs
  active,            \* globals['active_iap_events_processor']
  onPurchaseUpdate,  \* per processor: the subscription handle is set
  onPurchaseError,   \* per processor: the subscription handle is set
  updateSubs,        \* per processor: listeners registered on the update channel
  errorSubs,         \* per processor: listeners registered on the error channel
  purchaseQueue,     \* per processor: purchaseProcessor's pending entries
  errorQueue,        \* per processor: errorProcessor's pending entries
  burst,             \* per processor and transaction id: events of the open burst
  nInputs,           \* what the environment has done so far
  pendingPurchases,  \* iaptic.pendingPurchases: product id -> status
  purchases,         \* per processor: this.purchases, identity -> purchase
  cacheTimers,       \* per processor: pending 60 s deletion timers, oldest first
  calls,             \* the bag of processPurchase invocations that are suspended
  ended,             \* the invocation that ended in the last turn, if any
  finishCalls,       \* per transaction id: IAP.finishTransaction calls made
  failed,            \* the purchases whose last iaptic.validate call rejected
  warned,            \* logger.warn lines written by processError
  stopped            \* the processors whose last listener call was removeListeners

vars == <<products, nProcs, active, onPurchaseUpdate, onPurchaseError, updateSubs, errorSubs,
          purchaseQueue, errorQueue, burst, nInputs, pendingPurchases,
          purchases, cacheTimers, calls, ended, finishCalls, failed, warned,
          stopped>>

listenerVars == <<onPurchaseUpdate, onPurchaseError, updateSubs, errorSubs>>
queueVars    == <<purchaseQueue, errorQueue, burst, nInputs>>
stateVars    == <<pendingPurchases, purchases, cacheTimers,
                  finishCalls, failed>>

\* ------------------------------------------------ collaborators' operators

\* products.getType(productId)
GetType(productId) == products[productId]

\* pendingPurchases.getStatus(productId): Idle when unknown
GetStatus(productId) == pendingPurchases[productId]

\* pendingPurchases.update(productId, status): unconditional set
Update(productId, status) == [pendingPurchases EXCEPT ![productId] = status]

\* iaptic.purchases.getPurchase(productId, transactionId): what the store of
\* verified purchases holds for that pair
GetPurchase(productId, transactionId) ==
  {[productId |-> productId, transactionId |-> transactionId]}

\* ----------------------------------------------------- IapEventsProcessor

\* purchaseProcessor's key extractor: p => p.transactionId ?? ''
DedupKey_ByDelivery(p) == p.payload
DedupKey(p) == IF p.transactionId = NoTx THEN "" ELSE p.transactionId

\* errorProcessor's key extractor: e => e.code ?? ''
ErrorKey(e) == IF e.code = NoCode THEN "" ELSE e.code

\* purchase.transactionId ?? purchase.productId
Identity(p) == IF p.transactionId = NoTx THEN p.productId ELSE p.transactionId

\* globalsGet('active_iap_events_processor') === this.id
IsActive_Always(proc) == TRUE
IsActive(proc) == active = proc

\* getStatus(purchase.productId) === 'validating'
AlreadyValidating_Never(productId) == FALSE
AlreadyValidating(productId) == GetStatus(productId) = "validating"

\* if (!verified): the purchase is finished whatever the type of its product
Unverified_Never(verified) == FALSE
Unverified(verified) == ~verified

\* products.getType(purchase.productId) === 'consumable'
IsConsumable(productId) == GetType(productId) = "consumable"

\* the switch on the product type: the cases that finish the transaction
FinishesVerified_All(productId) == TRUE
FinishesVerified(productId) ==
  GetType(productId) \in {"non consumable", "paid subscription"}

\* one invocation of processPurchase; the fields after pc record what it did
CallRecord(proc, purchase, inBackground, b, entryActive, entryValidating, retry) ==
  [proc |-> proc, purchase |-> purchase, inBackground |-> inBackground,
   pc |-> "returned",
   entryActive |-> entryActive,                \* the processor was the live one
   entryValidating |-> entryValidating,        \* the product was being validated
   retry |-> retry,                            \* validate had rejected this purchase
   cached |-> FALSE,                           \* it wrote this.purchases
   updates |-> <<>>,                           \* the statuses it has set
   validates |-> 0,                            \* its iaptic.validate calls
   validateFailed |-> FALSE,
   verified |-> {},                            \* what validate resolved to
   finishes |-> <<>>,                          \* isConsumable of its finishTransaction calls
   finishFailed |-> FALSE,
   errorEvents |-> 0,                          \* 'error' events it emitted
   result |-> {},                              \* the value it resolved to
   endStatus |-> "",                           \* the product's status when it ended
   burstN |-> b.n, burstLast |-> b.last]

NoBurst == [n |-> 0, last |-> NoPurchase]

NewCall(proc, purchase, inBackground, b) ==
  CallRecord(proc, purchase, inBackground, b, active = proc,
             pendingPurchases[purchase.productId] = "validating",
             <<purchase.productId, purchase.transactionId>> \in failed)

\* no invocation ended in the last turn
NoCall == [CallRecord(0, NoPurchase, FALSE, NoBurst, FALSE, FALSE, FALSE) EXCEPT
             !.pc = "none"]

\* the invocation call is suspended in an await, or has ended
Started(call) ==
  IF call.pc \in Terminal
    THEN /\ calls' = calls
         /\ ended' = call
    ELSE /\ calls' = calls (+) SetToBag({call})
         /\ ended' = NoCall

\* the suspended invocation old resumes and becomes call
Resumed(old, call) ==
  IF call.pc \in Terminal
    THEN /\ calls' = calls (-) SetToBag({old})
         /\ ended' = call
    ELSE /\ calls' = (calls (-) SetToBag({old})) (+) SetToBag({call})
         /\ ended' = NoCall

\* a turn in which no invocation runs
NoCallRuns == calls' = calls /\ ended' = NoCall

Suspended == BagToSet(calls)

Ended(call, pc, status) == [call EXCEPT !.pc = pc, !.endStatus = status]

Init ==
  /\ products \in Catalogs
  /\ nProcs = 1
  /\ active = 1
  /\ onPurchaseUpdate = [p \in Procs |-> FALSE]
  /\ onPurchaseError = [p \in Procs |-> FALSE]
  /\ updateSubs = [p \in Procs |-> 0]
  /\ errorSubs = [p \in Procs |-> 0]
  /\ purchaseQueue = [p \in Procs |-> {}]
  /\ errorQueue = [p \in Procs |-> {}]
  /\ burst = [p \in Procs |-> [t \in TxIds |-> NoBurst]]
  /\ nInputs = 0
  /\ pendingPurchases = [p \in Products |-> "idle"]
  /\ purchases = [p \in Procs |-> {}]
  /\ cacheTimers = [p \in Procs |-> <<>>]
  /\ calls = EmptyBag
  /\ ended = NoCall
  /\ finishCalls = [t \in TxIds |-> 0]
  /\ failed = {}
  /\ warned = 0
  /\ stopped = {}

\* new IapEventsProcessor(iaptic, events): id = randomId(), taken to be fresh
Construct ==
  /\ nInputs < MaxInputs
  /\ nInputs' = nInputs + 1
  /\ nProcs' = nProcs + 1
  /\ active' = nProcs + 1
  /\ NoCallRuns
  /\ UNCHANGED <<products, stopped, listenerVars, purchaseQueue, errorQueue, burst, stateVars, warned>>

\* if (this.onPurchaseUpdate) return
AlreadyListening_Never(proc) == FALSE
AlreadyListening(proc) == onPurchaseUpdate[proc]

AddListeners(proc) ==
  /\ proc \in 1..nProcs
  /\ nInputs < MaxInputs
  /\ nInputs' = nInputs + 1
  /\ stopped' = stopped \ {proc}
  /\ IF AlreadyListening(proc)
       THEN UNCHANGED listenerVars
       ELSE /\ onPurchaseUpdate' = [onPurchaseUpdate EXCEPT ![proc] = TRUE]
            /\ onPurchaseError' = [onPurchaseError EXCEPT ![proc] = TRUE]
            /\ updateSubs' = [updateSubs EXCEPT ![proc] = @ + 1]
            /\ errorSubs' = [errorSubs EXCEPT ![proc] = @ + 1]
  /\ NoCallRuns
  /\ UNCHANGED <<products, nProcs, active, purchaseQueue, errorQueue, burst, stateVars, warned>>

RemoveListeners(proc) ==
  /\ proc \in 1..nProcs
  /\ nInputs < MaxInputs
  /\ nInputs' = nInputs + 1
  /\ updateSubs' = [updateSubs EXCEPT ![proc] = IF onPurchaseUpdate[proc] THEN @ - 1 ELSE @]
  /\ errorSubs' = [errorSubs EXCEPT ![proc] = IF onPurchaseError[proc] THEN @ - 1 ELSE @]
  /\ onPurchaseUpdate' = [onPurchaseUpdate EXCEPT ![proc] = FALSE]
  /\ onPurchaseError' = [onPurchaseError EXCEPT ![proc] = FALSE]
  /\ stopped' = stopped \cup {proc}
  /\ NoCallRuns
  /\ UNCHANGED <<products, nProcs, active, purchaseQueue, errorQueue, burst, stateVars, warned>>

\* ------------------------------------------------------- the two channels

\* DebouncedProcessor.add(value): the pending payload of the key is replaced
\* by the newest value; one run per key is scheduled
QueueAdd(queue, key, value) ==
  {q \in queue : q.key # key} \cup {[key |-> key, value |-> value]}

BurstAdd(b, p) ==
  IF p.transactionId = NoTx THEN b
  ELSE [b EXCEPT ![p.transactionId] = [n |-> @.n + 1, last |-> p]]

BurstClose(b, p) ==
  IF p.transactionId = NoTx THEN b
  ELSE [b EXCEPT ![p.transactionId] = NoBurst]

\* IAP.purchaseUpdatedListener(p => this.purchaseProcessor.add(p)): the platform
\* hands the event to every listener registered on the update channel
DeliverPurchase(productId, transactionId) ==
  /\ nInputs < MaxInputs
  /\ <<productId, transactionId>> \in PurchaseShapes
  /\ \E proc \in 1..nProcs : updateSubs[proc] > 0
  /\ LET p == Purchase(productId, transactionId, nInputs + 1) IN
       /\ purchaseQueue' = [proc \in Procs |->
            IF updateSubs[proc] > 0
              THEN QueueAdd(purchaseQueue[proc], DedupKey(p), p)
              ELSE purchaseQueue[proc]]
       /\ burst' = [proc \in Procs |->
            IF updateSubs[proc] > 0 THEN BurstAdd(burst[proc], p) ELSE burst[proc]]
  /\ nInputs' = nInputs + 1
  /\ NoCallRuns
  /\ UNCHANGED <<products, stopped, nProcs, active, listenerVars, errorQueue, stateVars, warned>>

\* IAP.purchaseErrorListener(e => this.errorProcessor.add(e))
DeliverError(code) ==
  /\ nInputs < MaxInputs
  /\ code \in ErrorCodes
  /\ \E proc \in 1..nProcs : errorSubs[proc] > 0
  /\ LET e == PurchaseError(code, nInputs + 1) IN
       errorQueue' = [proc \in Procs |->
         IF errorSubs[proc] > 0
           THEN QueueAdd(errorQueue[proc], ErrorKey(e), e)
           ELSE errorQueue[proc]]
  /\ nInputs' = nInputs + 1
  /\ NoCallRuns
  /\ UNCHANGED <<products, stopped, nProcs, active, listenerVars, purchaseQueue, burst, stateVars, warned>>

\* ---------------------------------------------------------- processPurchase

\* lines 59-94: from the entry to the first await
ProcessPurchase(proc, purchase, inBackground, b) ==
  LET call == NewCall(proc, purchase, inBackground, b)
      productId == purchase.productId IN
  /\ UNCHANGED <<finishCalls, failed>>
  /\ IF ~IsActive(proc)
       THEN /\ Started(Ended(call, "returned", GetStatus(productId)))
            /\ UNCHANGED <<pendingPurchases, purchases, cacheTimers>>
       ELSE /\ purchases' = [purchases EXCEPT ![proc] =
                   {e \in @ : e.id # Identity(purchase)}
                     \cup {[id |-> Identity(purchase), value |-> purchase]}]
            /\ cacheTimers' = [cacheTimers EXCEPT ![proc] = Append(@, Identity(purchase))]
            /\ IF AlreadyValidating(productId)
                 THEN /\ Started([call EXCEPT !.pc = "wait", !.cached = TRUE])
                      /\ UNCHANGED pendingPurchases
                 ELSE /\ pendingPurchases' = Update(productId, "validating")
                      /\ Started(
                           [call EXCEPT !.pc = "validate", !.cached = TRUE,
                                        !.updates = <<"validating">>, !.validates = 1])

\* DebouncedProcessor's scheduled run for one key: p => this.processPurchase(p, true)
FirePurchase(proc, q) ==
  /\ proc \in 1..nProcs
  /\ q \in purchaseQueue[proc]
  /\ \A c \in Suspended :
       ~(c.proc = proc /\ c.inBackground /\ DedupKey(c.purchase) = q.key)
  /\ purchaseQueue' = [purchaseQueue EXCEPT ![proc] = @ \ {q}]
  /\ burst' = [burst EXCEPT ![proc] = BurstClose(@, q.value)]
  /\ ProcessPurchase(proc, q.value, TRUE,
       IF q.value.transactionId = NoTx THEN NoBurst
       ELSE burst[proc][q.value.transactionId])
  /\ UNCHANGED <<products, stopped, nProcs, active, listenerVars, errorQueue, nInputs, warned>>

\* a direct call processPurchase(purchase) (inBackground defaults to false)
CallProcessPurchase(proc, productId, transactionId) ==
  /\ proc \in 1..nProcs
  /\ <<productId, transactionId>> \in PurchaseShapes
  /\ nInputs < MaxInputs
  /\ nInputs' = nInputs + 1
  /\ ProcessPurchase(proc, Purchase(productId, transactionId, 0), FALSE, NoBurst)
  /\ UNCHANGED <<products, stopped, nProcs, active, listenerVars, purchaseQueue, errorQueue, burst, warned>>

\* reportError: emit an 'error' event in the background, throw otherwise
ReportError(call) ==
  IF call.inBackground
    THEN [call EXCEPT !.errorEvents = @ + 1, !.pc = "returned"]
    ELSE [call EXCEPT !.pc = "raised"]

\* lines 86-89: one turn of the 100 ms polling loop
Poll(c) ==
  /\ c \in Suspended
  /\ c.pc = "wait"
  /\ LET call == c
         productId == call.purchase.productId IN
       IF GetStatus(productId) # "validating"
         THEN Resumed(c, Ended(
                [call EXCEPT !.result = GetPurchase(productId, call.purchase.transactionId)],
                "returned", GetStatus(productId)))
         ELSE NoCallRuns
  /\ UNCHANGED <<products, stopped, nProcs, active, listenerVars, queueVars, stateVars, warned>>

\* IAP.finishTransaction({purchase, isConsumable}) is called
FinishCalled(purchase) ==
  IF purchase.transactionId = NoTx THEN finishCalls
  ELSE [finishCalls EXCEPT ![purchase.transactionId] = @ + 1]

\* lines 106 and 136: the status every path after validate ends with
FinalStatus_Finishing == "finishing"
FinalStatus == "completed"

\* iaptic.validate(purchase) resolves with verified; lines 95-101 and 115-136
\* up to the await of finishTransaction or the end of the function
ValidateResolves(c, verified) ==
  /\ c \in Suspended
  /\ c.pc = "validate"
  /\ verified \in BOOLEAN
  /\ LET call == [c EXCEPT !.verified = {verified}]
         purchase == call.purchase
         productId == purchase.productId IN
       /\ failed' = failed \ {<<productId, purchase.transactionId>>}
       /\ IF Unverified(verified)
            THEN /\ pendingPurchases' = Update(productId, "finishing")
                 /\ finishCalls' = FinishCalled(purchase)
                 /\ Resumed(c,
                      [call EXCEPT !.pc = "finishUnverified",
                                   !.updates = Append(@, "finishing"),
                                   !.finishes = Append(@, IsConsumable(productId))])
            ELSE IF FinishesVerified(productId)
              THEN /\ pendingPurchases' = Update(productId, "finishing")
                   /\ finishCalls' = FinishCalled(purchase)
                   /\ Resumed(c,
                        [call EXCEPT !.pc = "finishVerified",
                                     !.updates = Append(@, "finishing"),
                                     !.finishes = Append(@, IsConsumable(productId))])
              ELSE /\ pendingPurchases' = Update(productId, FinalStatus)
                   /\ UNCHANGED finishCalls
                   /\ Resumed(c, Ended(
                        [call EXCEPT !.updates = Append(@, FinalStatus)],
                        "returned", FinalStatus))
  /\ UNCHANGED <<products, stopped, nProcs, active, listenerVars, queueVars, warned, purchases, cacheTimers>>

\* iaptic.validate(purchase) rejects: lines 110-113
ValidateRejects(c) ==
  /\ c \in Suspended
  /\ c.pc = "validate"
  /\ LET call == ReportError([c EXCEPT !.validateFailed = TRUE])
         purchase == call.purchase IN
       /\ Resumed(c, Ended(call, call.pc, GetStatus(purchase.productId)))
       /\ failed' = failed \cup {<<purchase.productId, purchase.transactionId>>}
  /\ UNCHANGED <<products, stopped, nProcs, active, listenerVars, queueVars, warned, pendingPurchases,
                 purchases, cacheTimers, finishCalls>>

\* IAP.finishTransaction resolves: line 106, or lines 132-136
FinishResolves(c) ==
  /\ c \in Suspended
  /\ c.pc \in {"finishUnverified", "finishVerified"}
  /\ pendingPurchases' = Update(c.purchase.productId, FinalStatus)
  /\ Resumed(c, Ended(
       [c EXCEPT !.updates = Append(@, FinalStatus)], "returned", FinalStatus))
  /\ UNCHANGED <<products, stopped, nProcs, active, listenerVars, queueVars, warned,
                 purchases, cacheTimers, finishCalls, failed>>

\* the two catch blocks around finishTransaction: logger.info only
OnFinishError_Reports(call) == ReportError([call EXCEPT !.finishFailed = TRUE])
OnFinishError(call) == [call EXCEPT !.finishFailed = TRUE]

\* IAP.finishTransaction rejects: lines 103-106, or lines 128-136
FinishRejects(c) ==
  /\ c \in Suspended
  /\ c.pc \in {"finishUnverified", "finishVerified"}
  /\ LET call == OnFinishError(c)
         productId == call.purchase.productId IN
       IF call.pc = "raised"
         THEN /\ Resumed(c, Ended(call, "raised", GetStatus(productId)))
              /\ UNCHANGED pendingPurchases
         ELSE /\ pendingPurchases' = Update(productId, FinalStatus)
              /\ Resumed(c, Ended(
                   [call EXCEPT !.updates = Append(@, FinalStatus)],
                   "returned", FinalStatus))
  /\ UNCHANGED <<products, stopped, nProcs, active, listenerVars, queueVars, warned,
                 purchases, cacheTimers, finishCalls, failed>>

\* lines 67-69: the oldest 60 s timer fires and deletes its identity
ExpireCache(proc) ==
  /\ proc \in 1..nProcs
  /\ cacheTimers[proc] # <<>>
  /\ nInputs < MaxInputs
  /\ nInputs' = nInputs + 1
  /\ purchases' = [purchases EXCEPT ![proc] = {e \in @ : e.id # Head(cacheTimers[proc])}]
  /\ cacheTimers' = [cacheTimers EXCEPT ![proc] = Tail(@)]
  /\ NoCallRuns
  /\ UNCHANGED <<products, stopped, nProcs, active, listenerVars, purchaseQueue, errorQueue, burst, warned,
                 pendingPurchases, finishCalls, failed>>

\* --------------------------------------------------------------- processError

\* lines 139-144: the liveness test, then logger.warn
ProcessError_Completes(proc, error) ==
  /\ warned' = IF IsActive(proc) THEN warned + 1 ELSE warned
  /\ pendingPurchases' = [productId \in Products |-> "completed"]
  /\ NoCallRuns
  /\ UNCHANGED <<purchases, cacheTimers, finishCalls, failed>>
ProcessError(proc, error) ==
  /\ warned' = IF IsActive(proc) THEN warned + 1 ELSE warned
  /\ NoCallRuns
  /\ UNCHANGED stateVars

\* DebouncedProcessor's scheduled run for one key: e => this.processError(e)
FireError(proc, q) ==
  /\ proc \in 1..nProcs
  /\ q \in errorQueue[proc]
  /\ errorQueue' = [errorQueue EXCEPT ![proc] = @ \ {q}]
  /\ ProcessError(proc, q.value)
  /\ UNCHANGED <<products, stopped, nProcs, active, listenerVars, purchaseQueue, burst, nInputs>>

\* ------------------------------------------------------------ specification

Next ==
  \/ Construct
  \/ \E proc \in Procs : AddListeners(proc)
  \/ \E proc \in Procs : RemoveListeners(proc)
  \/ \E s \in PurchaseShapes : DeliverPurchase(s[1], s[2])
  \/ \E code \in ErrorCodes : DeliverError(code)
  \/ \E proc \in Procs : \E q \in purchaseQueue[proc] : FirePurchase(proc, q)
  \/ \E proc \in Procs : \E q \in errorQueue[proc] : FireError(proc, q)
  \/ \E proc \in Procs : \E s \in PurchaseShapes : CallProcessPurchase(proc, s[1], s[2])
  \/ \E c \in Suspended : Poll(c)
  \/ \E c \in Suspended : \E verified \in BOOLEAN : ValidateResolves(c, verified)
  \/ \E c \in Suspended : ValidateRejects(c)
  \/ \E c \in Suspended : FinishResolves(c)
  \/ \E c \in Suspended : FinishRejects(c)
  \/ \E proc \in Procs : ExpireCache(proc)

Spec == Init /\ [][Next]_vars

\* timers fire, and every validate and finishTransaction call settles
Settles ==
  \/ \E c \in Suspended : Poll(c)
  \/ \E c \in Suspended : \E verified \in BOOLEAN : ValidateResolves(c, verified)
  \/ \E c \in Suspended : ValidateRejects(c)
  \/ \E c \in Suspended : FinishResolves(c)
  \/ \E c \in Suspended : FinishRejects(c)

FairSpec == Spec /\ WF_vars(Settles)
\* ======================================================================
\* The claims
\* ======================================================================

\* the invocations whose record is in the state: the suspended ones and the
\* one that ended in the last turn
Invocations == Suspended \cup (IF ended.pc = "none" THEN {} ELSE {ended})

\* the iaptic.validate calls in flight for productId
ValidatesInFlight(productId) ==
  LET inFlight == {c \in Suspended : c.pc = "validate" /\ c.purchase.productId = productId}
  IN BagCardinality([c \in inFlight |-> calls[c]])

HasTx(c) == c.purchase.transactionId # NoTx

\* C1: for every product, at most one iaptic.validate call for it is in
\* flight at any time
C1_MutualExclusion == \A productId \in Products : ValidatesInFlight(productId) <= 1

\* C2: IAP.finishTransaction is called at most once for each transaction
\* identifier, however often its purchase event is delivered
C2_IdempotentFinalize == \A t \in TxIds : finishCalls[t] <= 1

\* C3: the live processor is the one constructed last; a purchase event
\* handled by another processor is dropped at the entry of processPurchase: the
\* status map, the cache and its timers and the finishTransaction calls are
\* unchanged, and the invocation validates nothing, sets no status and emits
\* nothing; an error event handled by another processor logs nothing
C3_StaleDiscard ==
  /\ [](active = nProcs)
  /\ [][(ended'.pc # "none" /\ ~ended'.entryActive) =>
          /\ UNCHANGED <<pendingPurchases, purchases, cacheTimers, finishCalls, calls>>
          /\ ended'.pc = "returned"
          /\ ~ended'.cached
          /\ ended'.updates = <<>>
          /\ ended'.validates = 0
          /\ ended'.finishes = <<>>
          /\ ended'.errorEvents = 0]_vars
  /\ [][\A proc \in Procs :
          (/\ active # proc
           /\ errorQueue'[proc] # errorQueue[proc]
           /\ errorQueue'[proc] \subseteq errorQueue[proc]) =>
             UNCHANGED <<warned, pendingPurchases, purchases, cacheTimers,
                         finishCalls, calls>>]_vars

\* C3 witness: a purchase event delivered to the listener of a processor was
\* handled after a newer processor had been constructed
C3_Witness ==
  /\ ended.pc = "returned"
  /\ ~ended.entryActive
  /\ ended.inBackground
  /\ ended.burstN >= 1
  /\ ended.proc # active

\* C4: under fair scheduling, with every validate and finishTransaction call
\* settling, every invocation that passed the liveness filter ends: from some
\* point on no invocation is suspended any more
C4_EventualOutcome == <>[](calls = EmptyBag)

\* C5: an invocation that found its product Validating makes no validate call,
\* no finishTransaction call and no status update; it stays in the polling
\* loop, and when it ends it returns, the status is no longer Validating and
\* its value is iaptic.purchases.getPurchase(productId, transactionId)
C5_WaitsInsteadOfRevalidating ==
  \A c \in Invocations :
    (c.entryActive /\ c.entryValidating) =>
      /\ c.validates = 0
      /\ c.finishes = <<>>
      /\ c.updates = <<>>
      /\ c.errorEvents = 0
      /\ c.pc \in {"wait", "returned"}
      /\ c.pc = "returned" =>
           /\ c.endStatus # "validating"
           /\ c.result = {[productId |-> c.purchase.productId,
                           transactionId |-> c.purchase.transactionId]}

\* C5 witness: an invocation that waited has returned
C5_Witness ==
  /\ ended.pc = "returned"
  /\ ended.entryActive
  /\ ended.entryValidating
  /\ ended.result # {}

\* the events of each open burst are held by exactly one pending entry of the
\* queue, which carries the last of them
OneRunPerBurst ==
  \A proc \in Procs : \A t \in TxIds :
    LET pending == {q \in purchaseQueue[proc] : q.value.transactionId = t} IN
      IF burst[proc][t].n = 0
        THEN pending = {}
        ELSE Cardinality(pending) = 1 /\ \A q \in pending : q.value = burst[proc][t].last

\* C6 as stated, for the listener of the live processor: the events with one
\* transaction identifier delivered within the coalescing window lead to
\* exactly one processPurchase invocation, with the last payload, and that
\* invocation calls validate exactly once
C6_CoalescingValidatesOnce ==
  /\ OneRunPerBurst
  /\ \A c \in Invocations :
       (c.inBackground /\ HasTx(c) /\ c.entryActive) =>
         /\ c.burstN >= 1
         /\ c.purchase = c.burstLast
         /\ c.validates = 1

\* C6 amended: exactly one invocation, with the last payload; it calls
\* validate at most once: once if its processor is the live one and the
\* product is not Validating when it runs, and not at all otherwise
C6_Coalescing ==
  /\ OneRunPerBurst
  /\ \A c \in Invocations :
       (c.inBackground /\ HasTx(c)) =>
         /\ c.burstN >= 1
         /\ c.purchase = c.burstLast
         /\ c.validates = IF c.entryActive /\ ~c.entryValidating THEN 1 ELSE 0

\* C6 witness: a burst of two events was handled by one invocation, which
\* called validate
C6_Witness ==
  \E c \in Invocations :
    /\ c.inBackground
    /\ HasTx(c)
    /\ c.burstN >= 2
    /\ c.purchase.payload = nInputs
    /\ c.validates = 1

\* C7: when validate rejects, a background invocation emits one 'error' event
\* and returns, a foreground invocation throws and emits nothing; no
\* finishTransaction call is made and the product's status is Validating
C7_ValidationFailureReporting ==
  ended.validateFailed =>
    /\ ended.inBackground => (ended.pc = "returned" /\ ended.errorEvents = 1)
    /\ ~ended.inBackground => (ended.pc = "raised" /\ ended.errorEvents = 0)
    /\ ended.finishes = <<>>
    /\ ended.endStatus = "validating"

\* C8: once validate has rejected a purchase, the next processPurchase
\* invocation for the same purchase (on the live processor) calls validate
C8_RetryAfterFailure ==
  \A c \in Invocations : (c.retry /\ c.entryActive) => c.validates = 1

\* C9: once validate has resolved, the invocation ends by returning, with the
\* status Completed as its last update, whether finishTransaction resolves or
\* rejects; it throws nothing and emits no 'error' event
C9_FinalizeFailureSwallowed ==
  \A c \in Invocations :
    c.verified # {} =>
      /\ c.pc \in {"finishUnverified", "finishVerified", "returned"}
      /\ c.errorEvents = 0
      /\ c.pc = "returned" =>
           /\ c.endStatus = "completed"
           /\ c.updates[Len(c.updates)] = "completed"
           /\ pendingPurchases[c.purchase.productId] = "completed"

\* C9 witness: finishTransaction rejected and the invocation returned
C9_Witness ==
  /\ ended.finishFailed
  /\ ended.pc = "returned"
  /\ ended.verified = {TRUE}

\* C10: when validate resolves to true, an invocation for a consumable makes
\* no finishTransaction call and sets Validating, Completed; one for a
\* non-consumable or a paid subscription makes one finishTransaction call, with
\* isConsumable false, and sets Validating, Finishing, Completed; the status
\* is Completed when it ends
C10_VerifiedBranch ==
  \A c \in Invocations :
    c.verified = {TRUE} =>
      IF products[c.purchase.productId] = "consumable"
        THEN /\ c.pc = "returned"
             /\ c.finishes = <<>>
             /\ c.updates = <<"validating", "completed">>
             /\ c.endStatus = "completed"
        ELSE /\ c.finishes = <<FALSE>>
             /\ c.pc \in {"finishVerified", "returned"}
             /\ c.pc = "finishVerified" => c.updates = <<"validating", "finishing">>
             /\ c.pc = "returned" =>
                  /\ c.updates = <<"validating", "finishing", "completed">>
                  /\ c.endStatus = "completed"

\* C10 witness: a verified consumable purchase has ended without a
\* finishTransaction call while a verified purchase of the other product is
\* being finished
C10_Witness ==
  /\ ended.verified = {TRUE}
  /\ ended.pc = "returned"
  /\ products[ended.purchase.productId] = "consumable"
  /\ \E c \in Suspended : c.pc = "finishVerified" /\ c.finishes = <<FALSE>>

\* C11: when validate resolves to false, the invocation sets Finishing, calls
\* finishTransaction exactly once whatever the type of the product (with
\* isConsumable true for a consumable), then sets Completed and returns; it
\* emits no event and throws nothing
C11_UnverifiedPurchase ==
  \A c \in Invocations :
    c.verified = {FALSE} =>
      /\ c.finishes = <<products[c.purchase.productId] = "consumable">>
      /\ c.errorEvents = 0
      /\ c.pc \in {"finishUnverified", "returned"}
      /\ c.pc = "finishUnverified" => c.updates = <<"validating", "finishing">>
      /\ c.pc = "returned" =>
           /\ c.updates = <<"validating", "finishing", "completed">>
           /\ c.endStatus = "completed"
           /\ pendingPurchases[c.purchase.productId] = "completed"

\* C11 witness: an unverified purchase of a consumable has been finished and
\* its invocation has returned
C11_Witness ==
  /\ ended.verified = {FALSE}
  /\ ended.pc = "returned"
  /\ products[ended.purchase.productId] = "consumable"
  /\ ended.finishes = <<TRUE>>
  /\ pendingPurchases[ended.purchase.productId] = "completed"

\* the identities whose 60-second retention window is open on processor proc:
\* the timer of one of their puts has not fired yet
Retained(proc) == {cacheTimers[proc][i] : i \in 1..Len(cacheTimers[proc])}

\* the identities this.purchases of processor proc holds
Cached(proc) == {e.id : e \in purchases[proc]}

\* C12: on every processor, an identity is in the cache at every time within
\* 60 seconds of a put of it, a put that follows an earlier put of the same
\* identity included, and is not in the cache once 60 seconds have passed
\* since its last put
C12_CacheTTL ==
  \A proc \in Procs :
    /\ Retained(proc) \subseteq Cached(proc)
    /\ Cached(proc) \subseteq Retained(proc)

\* C13: a processor holds one subscription to each channel while its handles
\* are set and none otherwise, so never more than one; addListeners on a
\* processor that is listening and removeListeners on one that is not change
\* nothing; after addListeners it holds one subscription to each channel and
\* after removeListeners none
C13_ListenerIdempotence ==
  /\ [](\A proc \in Procs :
          /\ onPurchaseError[proc] = onPurchaseUpdate[proc]
          /\ updateSubs[proc] = IF onPurchaseUpdate[proc] THEN 1 ELSE 0
          /\ errorSubs[proc] = IF onPurchaseError[proc] THEN 1 ELSE 0)
  /\ [][\A proc \in Procs :
          /\ (AddListeners(proc) /\ onPurchaseUpdate[proc]) => UNCHANGED listenerVars
          /\ (RemoveListeners(proc) /\ ~onPurchaseUpdate[proc]) => UNCHANGED listenerVars
          /\ AddListeners(proc) => (updateSubs'[proc] = 1 /\ errorSubs'[proc] = 1)
          /\ RemoveListeners(proc) => (updateSubs'[proc] = 0 /\ errorSubs'[proc] = 0)]_vars

\* C13 witness: three calls of addListeners and removeListeners were made on
\* the only processor, nothing else happened, and it is listening: one of the
\* calls was an addListeners on a listening processor or a removeListeners
C13_Witness ==
  /\ nProcs = 1
  /\ nInputs = MaxInputs
  /\ updateSubs[1] = 1
  /\ errorSubs[1] = 1
  /\ purchaseQueue[1] = {}
  /\ errorQueue[1] = {}
  /\ calls = EmptyBag
  /\ cacheTimers[1] = <<>>
  /\ \A productId \in Products : pendingPurchases[productId] = "idle"
  /\ warned = 0

\* a purchase event is handed to processPurchase of processor proc in this
\* step: a coalesced event of its queue, or a direct call
HandsPurchaseTo(proc) ==
  \/ \E q \in purchaseQueue[proc] : FirePurchase(proc, q)
  \/ \E s \in PurchaseShapes : CallProcessPurchase(proc, s[1], s[2])

\* C14: a processor on which removeListeners was called is not the live one,
\* and a purchase event handed to its processPurchase afterwards is discarded:
\* no invocation is suspended in validate or finishTransaction for it, and
\* the status map, the cache and the finishTransaction calls are unchanged
C14_StopInvalidatesGeneration ==
  /\ [](\A proc \in stopped : ~IsActive(proc))
  /\ [][\A proc \in stopped :
          HandsPurchaseTo(proc) =>
            UNCHANGED <<pendingPurchases, purchases, cacheTimers, finishCalls, calls>>]_vars

\* the suspended invocation c resumes in this step
Resumes(c) ==
  \/ Poll(c)
  \/ \E verified \in BOOLEAN : ValidateResolves(c, verified)
  \/ ValidateRejects(c)
  \/ FinishResolves(c)
  \/ FinishRejects(c)

\* C15: when removeListeners is called on a processor, none of its invocations
\* stays suspended in validate, in finishTransaction or in the polling loop;
\* and an invocation of such a processor that resumes sets no status, calls
\* neither validate nor finishTransaction and emits nothing
C15_CancellationOnStop ==
  /\ [][\A proc \in Procs :
          RemoveListeners(proc) => \A c \in BagToSet(calls') : c.proc # proc]_vars
  /\ [][\A c \in Suspended :
          (c.proc \in stopped /\ Resumes(c)) =>
            /\ UNCHANGED <<pendingPurchases, finishCalls>>
            /\ ended'.errorEvents = 0]_vars

\* C16: every change of a product's status follows one of the edges Idle to
\* Validating, Validating to Finishing, Finishing to Completed, Validating to
\* Completed, or Completed to Validating for a new lifecycle
C16_MonotonicStatus ==
  [][\A productId \in Products :
        pendingPurchases'[productId] # pendingPurchases[productId] =>
          <<pendingPurchases[productId], pendingPurchases'[productId]>> \in
            {<<"idle", "validating">>, <<"validating", "finishing">>,
             <<"finishing", "completed">>, <<"validating", "completed">>,
             <<"completed", "validating">>}]_vars

\* C17: a step in which processError handles an error event, on the live
\* processor or on another one, leaves the status map, the cache and its
\* timers unchanged, makes no finishTransaction call and starts or resumes no
\* invocation, so no validate call either
C17_ProcessErrorFrame ==
  [][\A proc \in Procs :
        (\E q \in errorQueue[proc] : FireError(proc, q)) =>
          UNCHANGED <<pendingPurchases, purchases, cacheTimers, finishCalls, calls>>]_vars

\* C17 witness: the live processor has logged an error event while a purchase
\* is cached and an invocation is suspended for it
C17_Witness ==
  /\ warned >= 1
  /\ calls # EmptyBag
  /\ \E proc \in Procs : purchases[proc] # {}
  /\ \E productId \in Products : pendingPurchases[productId] # "idle"

\* some invocation is in the polling loop of lines 85-90
Waiting == \E c \in Suspended : c.pc = "wait"

\* C18: under fair scheduling, whenever an invocation is in the polling loop,
\* a later state has no invocation in the polling loop: every wait ends
C18_BoundedWait == Waiting ~> ~Waiting

\* C19: the delivery of a purchase event never merges it with the pending
\* event of another product: every event that was pending in the queue of a
\* processor is still pending after the delivery, or was replaced by a newer
\* event of the same product, so each product's event gets its own invocation
C19_NoCrossProductMerging ==
  [][(\E s \in PurchaseShapes : DeliverPurchase(s[1], s[2])) =>
        \A proc \in Procs : \A q \in purchaseQueue[proc] :
          \E r \in purchaseQueue'[proc] : r.value.productId = q.value.productId]_vars

\* no invocation for productId is suspended in validate, in finishTransaction
\* or in the polling loop
Quiescent(productId) == \A c \in Suspended : c.purchase.productId # productId

\* C20: while no invocation for a product is in flight, its status is Idle,
\* Validating or Completed, never Finishing; and it is Validating only if the
\* last validate call for some purchase of that product rejected
C20_QuiescentStatus ==
  \A productId \in Products :
    Quiescent(productId) =>
      /\ pendingPurchases[productId] \in {"idle", "validating", "completed"}
      /\ pendingPurchases[productId] = "validating" =>
           \E s \in PurchaseShapes : s[1] = productId /\ s \in failed

\* C20 witness: after invocations that finished a transaction and one whose
\* validate rejected, a product is quiescent with the status Validating
C20_Witness ==
  \E productId \in Products :
    /\ Quiescent(productId)
    /\ pendingPurchases[productId] = "validating"
    /\ ended.validateFailed
    /\ ended.purchase.productId = productId
    /\ \E t \in TxIds : finishCalls[t] >= 1
====
